---- MODULE Spec2Model ----
(***************************************************************************)
(* Time-zone inference of blockchain.py: calculate_time_zone_probability   *)
(* (normalise the hourly histogram, roll it by every candidate offset,     *)
(* score it against the night-time template, normalise the scores) and the *)
(* argmax of guess_time_zones.                                             *)
(*                                                                         *)
(* Numbers are exact rationals [n, d] in lowest terms.  A division by zero *)
(* is kept as numpy keeps it: x/0 is inf (1/0) and 0/0 is nan (0/0), and   *)
(* nan propagates through every later operation.                           *)
(***************************************************************************)
EXTENDS Integers, Sequences, FiniteSets

VARIABLES pc, transaction_freq, transaction_prob, nighttime_inactivity,
          time_zones, shifted_prob, likelihoods, posterior_probabilities,
          guessed_timezone

vars == <<pc, transaction_freq, transaction_prob, nighttime_inactivity,
          time_zones, shifted_prob, likelihoods, posterior_probabilities,
          guessed_timezone>>

(* ---- bounds of the inputs ---- *)
MaxTx == 2
MaxCount == 2
MaxScale == 2

(* ---- program constants ---- *)
NumBins == 24
NightLen == 6
ZoneStart == -12
ZoneStop == 13

None == "None"
Bins == 1..NumBins

(* ---- rational arithmetic with the IEEE special values ---- *)
RECURSIVE GCD(_, _)
GCD(a, b) == IF b = 0 THEN a ELSE GCD(b, a % b)

Abs(x) == IF x < 0 THEN -x ELSE x
Sgn(x) == IF x < 0 THEN -1 ELSE IF x > 0 THEN 1 ELSE 0

Rat(n, d) ==
    IF d = 0 THEN [n |-> Sgn(n), d |-> 0]
    ELSE LET g == GCD(Abs(n), Abs(d))
         IN  [n |-> (Sgn(d) * n) \div g, d |-> Abs(d) \div g]

Zero == Rat(0, 1)
One == Rat(1, 1)
NaN == Rat(0, 0)
IsNaN(x) == x.n = 0 /\ x.d = 0
IsFinite(x) == x.d # 0

RAdd(a, b) == Rat(a.n * b.d + b.n * a.d, a.d * b.d)
RMul(a, b) == Rat(a.n * b.n, a.d * b.d)
RDiv(a, b) == Rat(a.n * b.d, a.d * b.n)
RLess(a, b) == a.n * b.d < b.n * a.d

RECURSIVE SumTo(_, _)
SumTo(a, n) == IF n = 0 THEN Zero ELSE RAdd(SumTo(a, n - 1), a[n])
RSum(a) == SumTo(a, Len(a))

RECURSIVE IntSumTo(_, _)
IntSumTo(a, n) == IF n = 0 THEN 0 ELSE IntSumTo(a, n - 1) + a[n]
IntSum(a) == IntSumTo(a, Len(a))

(* ---- numpy operations used by the program ---- *)

(* np.array(ints) as exact numbers *)
AsArray(freq) == [i \in 1..Len(freq) |-> Rat(freq[i], 1)]

(* a / s : elementwise true division of an array by a scalar *)
Divide(a, s) == [i \in 1..Len(a) |-> RDiv(a[i], s)]

(* np.arange(start, stop, 1) *)
Arange(start, stop) == [n \in 1..(stop - start) |-> start + n - 1]

(* np.roll with the direction of the shift reversed *)
RollReverse(a, shift) ==
    [j \in 1..Len(a) |-> a[((j - 1 + shift) % Len(a)) + 1]]

(* a shift that fills with zeros instead of wrapping around *)
RollNoWrap(a, shift) ==
    [j \in 1..Len(a) |->
        IF j - shift \in 1..Len(a) THEN a[j - shift] ELSE Zero]

(* np.roll(a, shift): the element at 0-based index i moves to (i + shift) mod len *)
Roll(a, shift) ==
    [j \in 1..Len(a) |-> a[((j - 1 - shift) % Len(a)) + 1]]

(* np.sum(a * b) *)
Dot(a, b) == RSum([i \in 1..Len(a) |-> RMul(a[i], b[i])])

(* an argmax that keeps the last occurrence of the maximum *)
ArgMaxLast(a) ==
    LET nans == {i \in 1..Len(a) : IsNaN(a[i])}
        best == {i \in 1..Len(a) : \A j \in 1..Len(a) : ~RLess(a[i], a[j])}
        last(S) == CHOOSE i \in S : \A j \in S : i >= j
    IN  IF nans # {} THEN last(nans) - 1 ELSE last(best) - 1

(* np.argmin(a) *)
ArgMin(a) ==
    LET nans == {i \in 1..Len(a) : IsNaN(a[i])}
        least == {i \in 1..Len(a) : \A j \in 1..Len(a) : ~RLess(a[j], a[i])}
        first(S) == CHOOSE i \in S : \A j \in S : i <= j
    IN  IF nans # {} THEN first(nans) - 1 ELSE first(least) - 1

(* np.argmax(a): 0-based index of the first nan if there is one, else of   *)
(* the first occurrence of the maximum                                     *)
ArgMax(a) ==
    LET nans == {i \in 1..Len(a) : IsNaN(a[i])}
        best == {i \in 1..Len(a) : \A j \in 1..Len(a) : ~RLess(a[i], a[j])}
        first(S) == CHOOSE i \in S : \A j \in S : i <= j
    IN  IF nans # {} THEN first(nans) - 1 ELSE first(best) - 1

(* np.histogram(hours, bins=24, range=(0, 24)) over whole hours *)
Histogram(hours) ==
    [b \in Bins |-> Cardinality({n \in 1..Len(hours) : hours[n] = b - 1})]

(* ---- calculate_time_zone_probability, step by step ---- *)

(* normalisation with one pseudo-count added to every bin *)
TransactionProbSmoothed(freq) ==
    Divide(AsArray([i \in 1..Len(freq) |-> freq[i] + 1]),
           Rat(IntSum(freq) + Len(freq), 1))

TransactionProb(freq) == Divide(AsArray(freq), Rat(IntSum(freq), 1))

NighttimeInactivity ==
    LET ones == [b \in Bins |-> IF b - 1 < NightLen THEN One ELSE Zero]
    IN  Divide(ones, RSum(ones))

(* only the offsets east of Greenwich *)
TimeZonesNonNegative == Arange(0, ZoneStop)

TimeZones == Arange(ZoneStart, ZoneStop)

Likelihood(prob, night, tz) == Dot(Roll(prob, tz), night)

(* the likelihoods returned without the final normalisation *)
PosteriorRaw(lik) == lik

Posterior(lik) == Divide(lik, RSum(lik))

(* the least supported offset instead of the best supported one *)
GuessedTimezoneArgMin(zones, probabilities) == zones[ArgMin(probabilities) + 1]

GuessedTimezone(zones, probabilities) == zones[ArgMax(probabilities) + 1]

(* the whole function, for comparing two calls *)
CalculateTimeZoneProbability(freq) ==
    LET prob == TransactionProb(freq)
        night == NighttimeInactivity
        zones == TimeZones
    IN  Posterior([n \in 1..Len(zones) |-> Likelihood(prob, night, zones[n])])

(* ---- inputs ---- *)

(* histograms of up to MaxTx transactions at arbitrary hours *)
SparseFreqs ==
    UNION { { Histogram(h) : h \in [1..n -> 0..(NumBins - 1)] } : n \in 0..MaxTx }

(* a level count in every bin except a window of NightLen bins, which      *)
(* holds another count: the uniform histograms and the shifted quiet       *)
(* windows are of this shape                                               *)
BlockFreqs ==
    { [b \in Bins |-> IF ((b - 1 - s) % NumBins) < NightLen THEN w ELSE c] :
        s \in 0..(NumBins - 1), w \in 0..MaxCount, c \in 0..MaxCount }

Freqs == SparseFreqs \cup BlockFreqs

(* ---- the state machine ---- *)

Init ==
    /\ pc = "normalize"
    /\ transaction_freq \in Freqs
    /\ transaction_prob = <<>>
    /\ nighttime_inactivity = <<>>
    /\ time_zones = <<>>
    /\ shifted_prob = <<>>
    /\ likelihoods = <<>>
    /\ posterior_probabilities = <<>>
    /\ guessed_timezone = None

(* line 124 *)
NormalizeFreq ==
    /\ pc = "normalize"
    /\ transaction_prob' = TransactionProb(transaction_freq)
    /\ pc' = "template"
    /\ UNCHANGED <<transaction_freq, nighttime_inactivity, time_zones,
                   shifted_prob, likelihoods, posterior_probabilities,
                   guessed_timezone>>

(* lines 127-135 *)
Template ==
    /\ pc = "template"
    /\ nighttime_inactivity' = NighttimeInactivity
    /\ time_zones' = TimeZones
    /\ likelihoods' = <<>>
    /\ pc' = "loop"
    /\ UNCHANGED <<transaction_freq, transaction_prob, shifted_prob,
                   posterior_probabilities, guessed_timezone>>

(* lines 138-141: one iteration of the loop over time_zones *)
LoopBody ==
    /\ pc = "loop"
    /\ Len(likelihoods) < Len(time_zones)
    /\ LET tz == time_zones[Len(likelihoods) + 1]
       IN  /\ shifted_prob' = Roll(transaction_prob, tz)
           /\ likelihoods' =
                Append(likelihoods, Likelihood(transaction_prob, nighttime_inactivity, tz))
    /\ UNCHANGED <<pc, transaction_freq, transaction_prob, nighttime_inactivity,
                   time_zones, posterior_probabilities, guessed_timezone>>

(* lines 144-146 *)
NormalizeLikelihoods ==
    /\ pc = "loop"
    /\ Len(likelihoods) = Len(time_zones)
    /\ posterior_probabilities' = Posterior(likelihoods)
    /\ pc' = "argmax"
    /\ UNCHANGED <<transaction_freq, transaction_prob, nighttime_inactivity,
                   time_zones, shifted_prob, likelihoods, guessed_timezone>>

(* lines 165-168 *)
Guess ==
    /\ pc = "argmax"
    /\ guessed_timezone' = GuessedTimezone(time_zones, posterior_probabilities)
    /\ pc' = "done"
    /\ UNCHANGED <<transaction_freq, transaction_prob, nighttime_inactivity,
                   time_zones, shifted_prob, likelihoods, posterior_probabilities>>

Next == NormalizeFreq \/ Template \/ LoopBody \/ NormalizeLikelihoods \/ Guess

Spec == Init /\ [][Next]_vars

(* ======================= properties ======================= *)

Total == IntSum(transaction_freq)
NumZones == ZoneStop - ZoneStart
Idx(k) == k - ZoneStart + 1
Scored == pc \in {"argmax", "done"}
RLeq(a, b) == ~RLess(b, a)

(* the transactions of the bins that offset k brings into hours [0, NightLen) *)
WindowCount(freq, k) ==
    IntSum([b \in Bins |-> IF ((b - 1 + k) % NumBins) < NightLen THEN freq[b] ELSE 0])

(* zero in the NightLen bins from bin s on, positive in every other bin *)
QuietFrom(freq, s) ==
    \A b \in Bins :
        IF ((b - 1 - s) % NumBins) < NightLen THEN freq[b] = 0 ELSE freq[b] > 0

Uniform(freq) == freq[1] > 0 /\ \A b \in Bins : freq[b] = freq[1]

(* C1: for a histogram with a non-zero total, the posterior has one entry  *)
(* for each of the 25 offsets, every entry is a non-negative number, each  *)
(* is likelihood(k) over the sum of the likelihoods, and they sum to 1.    *)
C1_PosteriorIsDistribution ==
    (Scored /\ Total # 0) =>
        /\ Len(posterior_probabilities) = NumZones
        /\ Len(likelihoods) = NumZones
        /\ \A n \in 1..Len(posterior_probabilities) :
              /\ IsFinite(posterior_probabilities[n])
              /\ posterior_probabilities[n].n >= 0
        /\ posterior_probabilities = Divide(likelihoods, RSum(likelihoods))
        /\ RSum(posterior_probabilities) = One

C1_Witness ==
    /\ pc = "done"
    /\ Total # 0
    /\ \E n \in 1..Len(posterior_probabilities) : posterior_probabilities[n] = Zero
    /\ \E n \in 1..Len(posterior_probabilities) :
          RLess(Zero, posterior_probabilities[n]) /\ RLess(posterior_probabilities[n], One)

(* C2: with an empty histogram (total 0) the inference stops with an error *)
(* at the normalisation: it never completes, so no posterior and no offset *)
(* is returned.                                                            *)
C2_EmptyInputFails ==
    Total = 0 => pc # "done"

(* C3: with no activity in hours [0,6) and activity in every other hour,   *)
(* the posterior is greatest at offset 0 and offset 0 is selected.         *)
C3_QuietNightSelectsZero ==
    (pc = "done" /\ QuietFrom(transaction_freq, 0)) =>
        /\ guessed_timezone = 0
        /\ \A n \in 1..NumZones :
              RLeq(posterior_probabilities[n], posterior_probabilities[Idx(0)])

(* C4: with no activity in hours [5,11) and activity in every other hour,  *)
(* the selected offset is -5 or +5 and no other offset has a strictly      *)
(* larger posterior.                                                       *)
C4_ShiftedQuietSelectsFive ==
    (pc = "done" /\ QuietFrom(transaction_freq, 5)) =>
        /\ guessed_timezone \in {-5, 5}
        /\ \A n \in 1..NumZones :
              \/ RLeq(posterior_probabilities[n], posterior_probabilities[Idx(-5)])
              \/ RLeq(posterior_probabilities[n], posterior_probabilities[Idx(5)])

(* C5: with the same positive count in all 24 bins, every offset has the   *)
(* same likelihood, every posterior probability is 1/25, and the selected  *)
(* offset is -12.                                                          *)
C5_UniformSelectsFirst ==
    Uniform(transaction_freq) =>
        /\ \A n \in 1..Len(likelihoods) : likelihoods[n] = likelihoods[1]
        /\ Scored =>
              /\ Len(posterior_probabilities) = NumZones
              /\ \A n \in 1..Len(posterior_probabilities) :
                    posterior_probabilities[n] = Rat(1, NumZones)
        /\ pc = "done" => guessed_timezone = ZoneStart

C5_Witness ==
    /\ pc = "done"
    /\ Uniform(transaction_freq)
    /\ transaction_freq[1] > 1
    /\ guessed_timezone = ZoneStart

(* C6: for a histogram with a non-zero total the selected offset has the   *)
(* greatest posterior, and every smaller offset has a strictly smaller     *)
(* posterior: of the offsets tied for the maximum the smallest is chosen.  *)
C6_ArgmaxFirstOccurrence ==
    (pc = "done" /\ Total # 0) =>
        /\ guessed_timezone \in ZoneStart..(ZoneStop - 1)
        /\ \A k \in ZoneStart..(ZoneStop - 1) :
              /\ RLeq(posterior_probabilities[Idx(k)],
                      posterior_probabilities[Idx(guessed_timezone)])
              /\ k < guessed_timezone =>
                    RLess(posterior_probabilities[Idx(k)],
                          posterior_probabilities[Idx(guessed_timezone)])

C6_Witness ==
    /\ pc = "done"
    /\ Total # 0
    /\ guessed_timezone > ZoneStart
    /\ \E k \in (guessed_timezone + 1)..(ZoneStop - 1) :
          posterior_probabilities[Idx(k)] = posterior_probabilities[Idx(guessed_timezone)]

(* C7: multiplying every count of a histogram with a non-zero total by a   *)
(* positive integer leaves the posterior of every offset, and so the       *)
(* selected offset, unchanged: the result for c*H is the result for H.     *)
Divisible(freq, c) == \A b \in Bins : freq[b] % c = 0
Unscaled(freq, c) == [b \in Bins |-> freq[b] \div c]

C7_ScalingInvariance ==
    (pc = "done" /\ Total # 0) =>
        \A c \in 1..MaxScale :
            Divisible(transaction_freq, c) =>
                LET post == CalculateTimeZoneProbability(Unscaled(transaction_freq, c))
                IN  /\ posterior_probabilities = post
                    /\ guessed_timezone = GuessedTimezone(TimeZones, post)

C7_Witness ==
    /\ pc = "done"
    /\ Total # 0
    /\ \E c \in 2..MaxScale : Divisible(transaction_freq, c)
    /\ ~Uniform(transaction_freq)

(* C8: for a histogram with a non-zero total, the profile rolled for       *)
(* offset k holds at index (i + k) mod 24 the value p had at index i; the  *)
(* template is 1/6 on indices 0..5 and 0 elsewhere; likelihood(k) is 1/6   *)
(* of the sum of p over the bins i with (i + k) mod 24 in 0..5; and the    *)
(* likelihoods are produced for k = -12, -11, ... in ascending order.      *)
C8_RotationAndLikelihood ==
    (pc = "loop" /\ Total # 0) =>
        /\ Len(likelihoods) = 0 =>
              \A b \in Bins :
                  /\ transaction_prob[b] = Rat(transaction_freq[b], Total)
                  /\ nighttime_inactivity[b] =
                        IF b - 1 < NightLen THEN Rat(1, NightLen) ELSE Zero
        /\ Len(likelihoods) <= NumZones
        /\ Len(likelihoods) >= 1 =>
              LET k == ZoneStart + Len(likelihoods) - 1
              IN  /\ time_zones[Len(likelihoods)] = k
                  /\ likelihoods[Len(likelihoods)] =
                        Rat(WindowCount(transaction_freq, k), NightLen * Total)
                  /\ \A i \in 0..(NumBins - 1) :
                        shifted_prob[((i + k) % NumBins) + 1] = transaction_prob[i + 1]
        /\ Len(likelihoods) = NumZones =>
              likelihoods =
                  [n \in 1..NumZones |->
                      Rat(WindowCount(transaction_freq, ZoneStart + n - 1),
                          NightLen * Total)]

C8_Witness ==
    /\ pc = "loop"
    /\ Total # 0
    /\ Len(likelihoods) = NumZones
    /\ likelihoods[Idx(-3)] # Zero
    /\ likelihoods[Idx(3)] = Zero
    /\ shifted_prob # transaction_prob

(* C9: for a histogram with a non-zero total the sum of the 25 raw         *)
(* likelihoods is strictly positive, so the final normalisation never      *)
(* divides by zero and every posterior value is a number.                  *)
C9_LikelihoodSumPositive ==
    (Scored /\ Total # 0) =>
        /\ IsFinite(RSum(likelihoods))
        /\ RLess(Zero, RSum(likelihoods))
        /\ \A n \in 1..Len(posterior_probabilities) :
              IsFinite(posterior_probabilities[n])

C9_Witness ==
    /\ Scored
    /\ Total = 1
    /\ transaction_freq[9] = 1
    /\ RLess(Zero, RSum(likelihoods))

(* C10: for a histogram with a non-zero total, offsets -12 and +12 have    *)
(* the same likelihood and the same posterior, and the selected offset is  *)
(* never +12.                                                              *)
C10_EndOffsetsCoincide ==
    Total # 0 =>
        /\ Len(likelihoods) = NumZones =>
              likelihoods[Idx(ZoneStart)] = likelihoods[Idx(ZoneStop - 1)]
        /\ Scored =>
              posterior_probabilities[Idx(ZoneStart)]
                  = posterior_probabilities[Idx(ZoneStop - 1)]
        /\ pc = "done" => guessed_timezone # ZoneStop - 1

C10_Witness ==
    /\ pc = "done"
    /\ Total # 0
    /\ ~Uniform(transaction_freq)
    /\ guessed_timezone = ZoneStart
    /\ posterior_probabilities[Idx(ZoneStop - 1)] = posterior_probabilities[Idx(ZoneStart)]
    /\ \A k \in (ZoneStart + 1)..(ZoneStop - 2) :
          RLess(posterior_probabilities[Idx(k)], posterior_probabilities[Idx(ZoneStart)])

====
